---- MODULE Spec2Model ----
(***************************************************************************)
(* FortTest: an API integration-test harness.  The module models           *)
(*   - the Auth client (utils/auth: getAccessToken, validateParams),       *)
(*   - the request/assertion engine (classes/backendTest.ts: test,         *)
(*     executeRequest, the deferred `testPromise.expects` surface and the  *)
(*     direct `result.expects` surface),                                   *)
(* as state machines, and the pure parts (header assembly, property-path   *)
(* resolution, JSON.stringify comparison) as operators applied by actions. *)
(*                                                                         *)
(* Text is modelled as a sequence of one-character strings, so that        *)
(* String.prototype.split and JSON.stringify are computed, not assumed.    *)
(***************************************************************************)
EXTENDS Integers, Sequences, FiniteSets, TLC

VARIABLES
    callState,   \* per test call: "fetching" | "parsing" | "fulfilled" | "rejected"
    network,     \* the requests handed to fetch, in order, each tagged with its call
    outcome,     \* per test call: the response, the TestResult, the rejection reason
    held,        \* per test call: what the caller's chain expression currently holds
    chain,       \* per test call: the assertions called on the resolved result
    promises,    \* promises returned by the deferred assertions (testPromise.expects.X)
    log,         \* lines emitted through the logger, in order
    req,         \* request-construction machine (executeRequest up to fetch)
    auth,        \* Auth.getAccessToken machine
    pure,        \* one assertion applied to one settled TestResult
    runner       \* the top-level runner: main() of index.ts

vars == <<callState, network, outcome, held, chain, promises, log, req, auth, pure, runner>>

engineVars == <<callState, network, outcome, held, chain, promises, log>>

----------------------------------------------------------------------------
(* Bounds *)

\* assertions a test module invokes, on handles and on results together
MaxAsserts == 2

\* longest property path, in characters
MaxPathLen == 3
\* most keys of an object literal compared by toMatchData
MaxObjKeys == 2
\* most fields of the parameter record handed to getAccessToken
MaxParams == 2

----------------------------------------------------------------------------
(* JavaScript values.  Every value is a record of one shape so that any    *)
(* two values can be compared.  Objects and arrays keep their properties   *)
(* in insertion order, as the engine does.                                 *)

Undefined == [tag |-> "undefined", val |-> <<>>, props |-> <<>>]
Null == [tag |-> "null", val |-> <<>>, props |-> <<>>]
Num(digits) == [tag |-> "number", val |-> digits, props |-> <<>>]
Str(chars) == [tag |-> "string", val |-> chars, props |-> <<>>]
Bool(b) == [tag |-> "boolean", val |-> IF b THEN <<"t">> ELSE <<"f">>, props |-> <<>>]
Obj(props) == [tag |-> "object", val |-> <<>>, props |-> props]
\* the canonical index keys "0", "1", "2" of an array
IndexKey(i) == <<<<"0">>, <<"1">>, <<"2">>>>[i]
Arr(items) == [tag |-> "array", val |-> <<>>,
               props |-> [i \in 1..Len(items) |-> [k |-> IndexKey(i), v |-> items[i]]]]
P(key, value) == [k |-> key, v |-> value]

Range(s) == {s[i] : i \in 1..Len(s)}

IsNullish(v) == v.tag \in {"undefined", "null"}

\* the `===` operator: primitives by value, objects by reference (an object
\* handed in by the caller is never the object parsed from the response)
StrictEquals(a, b) ==
    /\ a.tag = b.tag
    /\ a.tag \notin {"object", "array"}
    /\ a.val = b.val

\* ToBoolean
Truthy(v) ==
    CASE v.tag \in {"undefined", "null"} -> FALSE
      [] v.tag = "boolean" -> v.val = <<"t">>
      [] v.tag = "number" -> v.val # <<"0">>
      [] v.tag = "string" -> v.val # <<>>
      [] OTHER -> TRUE

\* current[prop] for a current that is neither undefined nor null
GetProp(current, prop) ==
    CASE current.tag \in {"object", "array"} ->
            IF \E i \in 1..Len(current.props) : current.props[i].k = prop
            THEN current.props[CHOOSE i \in 1..Len(current.props) : current.props[i].k = prop].v
            ELSE Undefined
      [] current.tag = "string" ->
            IF prop = <<"0">> /\ Len(current.val) > 0
            THEN Str(<<current.val[1]>>)
            ELSE Undefined
      [] OTHER -> Undefined

\* text.split(sep) for a one-character separator
RECURSIVE SplitFrom(_, _, _, _)
SplitFrom(text, sep, i, piece) ==
    IF i > Len(text) THEN <<piece>>
    ELSE IF text[i] = sep THEN <<piece>> \o SplitFrom(text, sep, i + 1, <<>>)
    ELSE SplitFrom(text, sep, i + 1, Append(piece, text[i]))

Split(text, sep) == SplitFrom(text, sep, 1, <<>>)

RECURSIVE JoinWith(_, _)
JoinWith(seqs, sep) ==
    IF seqs = <<>> THEN <<>>
    ELSE IF Len(seqs) = 1 THEN Head(seqs)
    ELSE Head(seqs) \o sep \o JoinWith(Tail(seqs), sep)

\* JSON.stringify: properties are written in insertion order; a property
\* whose value is undefined is left out of an object and written as null
\* in an array; stringify(undefined) is undefined, not text.
NoText == <<"<undefined>">>
Quote(chars) == <<"\"">> \o chars \o <<"\"">>

RECURSIVE Stringify(_)
Stringify(v) ==
    CASE v.tag = "undefined" -> NoText
      [] v.tag = "null" -> <<"n", "u", "l", "l">>
      [] v.tag = "number" -> v.val
      [] v.tag = "boolean" -> IF v.val = <<"t">> THEN <<"t", "r", "u", "e">>
                                                 ELSE <<"f", "a", "l", "s", "e">>
      [] v.tag = "string" -> Quote(v.val)
      [] v.tag = "object" ->
            LET Kept(p) == p.v.tag # "undefined"
                kept == SelectSeq(v.props, Kept)
                parts == [i \in 1..Len(kept) |->
                            Quote(kept[i].k) \o <<":">> \o Stringify(kept[i].v)]
            IN <<"{">> \o JoinWith(parts, <<",">>) \o <<"}">>
      [] v.tag = "array" ->
            LET parts == [i \in 1..Len(v.props) |->
                            IF v.props[i].v.tag = "undefined"
                            THEN <<"n", "u", "l", "l">>
                            ELSE Stringify(v.props[i].v)]
            IN <<"[">> \o JoinWith(parts, <<",">>) \o <<"]">>

----------------------------------------------------------------------------
(* Log lines and TestResult *)

Line(level, mark, text) == [level |-> level, mark |-> mark, text |-> text]

\* what an assertion call does: the lines it logs and whether it returns
\* the result or lets an exception escape
Returns(lines) == [lines |-> lines, ret |-> "result"]
Throws(lines) == [lines |-> lines, ret |-> "throw"]

TestResult(status, statusText, data, headers, responseTime, description) ==
    [status |-> status, statusText |-> statusText, data |-> data, headers |-> headers,
     responseTime |-> responseTime, description |-> description]

----------------------------------------------------------------------------
(* The direct assertion surface: result.expects, bound to a settled result *)

\* mutant: a failed status check raised, as an assertion library would
ResultToHaveStatus_Raising(result, expectedStatus) ==
    LET success == result.status = expectedStatus
    IN IF success
       THEN Returns(<<Line("info", "pass", <<"Status is", expectedStatus>>)>>)
       ELSE Throws(<<Line("error", "fail",
                          <<"Expected status", expectedStatus, result.status>>)>>)

ResultToHaveStatus(result, expectedStatus) ==
    LET success == result.status = expectedStatus
    IN IF success
       THEN Returns(<<Line("info", "pass", <<"Status is", expectedStatus>>)>>)
       ELSE Returns(<<Line("error", "fail",
                           <<"Expected status", expectedStatus, result.status>>)>>)

\* predicates handed to toHaveData by the test modules
\*   "nonEmptyArray": data => Array.isArray(data) && data.length > 0
\*   "activeEvents":  data => data.channels[...]...   (dereferences data.a)
ApplyPredicate(predicate, data) ==
    CASE predicate = "nonEmptyArray" ->
            IF data.tag = "array" /\ Len(data.props) > 0 THEN "true" ELSE "false"
      [] predicate = "activeEvents" ->
            IF IsNullish(data) \/ IsNullish(GetProp(data, <<"a">>)) THEN "throw"
            ELSE IF GetProp(GetProp(data, <<"a">>), <<"a">>).tag = "array" THEN "true"
            ELSE "false"

ResultToHaveData(result, predicate) ==
    LET success == ApplyPredicate(predicate, result.data)
    IN CASE success = "throw" -> Throws(<<>>)
         [] success = "true" -> Returns(<<Line("info", "pass", <<"Data validation passed">>)>>)
         [] OTHER -> Returns(<<Line("error", "fail", <<"Data validation failed">>)>>)

ResultToMatchData(result, expected) ==
    LET success == Stringify(result.data) = Stringify(expected)
    IN IF success
       THEN Returns(<<Line("info", "pass", <<"Data matches expected">>)>>)
       ELSE Returns(<<Line("error", "fail", <<"Data doesn't match expected">>),
                      Line("debug", "none", <<"debug", expected, result.data>>)>>)

\* Headers.get(name): case-insensitive, null when the header is absent
LowerCase(name) ==
    CASE name = "Content-Type" -> "content-type"
      [] name = "Authorization" -> "authorization"
      [] name = "X-Custom" -> "x-custom"
      [] OTHER -> name

HeadersGet(headers, name) ==
    IF LowerCase(name) \in DOMAIN headers THEN Str(headers[LowerCase(name)]) ELSE Null

ResultToHaveHeader(result, header, value) ==
    LET headerValue == HeadersGet(result.headers, header)
        success == IF Truthy(value) THEN StrictEquals(headerValue, value)
                   ELSE Truthy(headerValue)
    IN IF success
       THEN Returns(<<Line("info", "pass", <<"Header validation passed", header>>)>>)
       ELSE Returns(<<Line("error", "fail", <<"Header validation failed", header>>)>>)

\* the for-loop over path.split('.'): found = FALSE is the early return
RECURSIVE WalkProps(_, _, _)
WalkProps(current, props, i) ==
    IF i > Len(props) THEN [found |-> TRUE, current |-> current]
    ELSE IF IsNullish(current) THEN [found |-> FALSE, current |-> current]
    ELSE WalkProps(GetProp(current, props[i]), props, i + 1)

\* mutant: the truthiness test of toHaveHeader used for the property value
ResultToHaveProperty_Truthy(result, path, value) ==
    LET props == Split(path, ".")
        walk == WalkProps(result.data, props, 1)
        success == IF Truthy(value) THEN StrictEquals(walk.current, value)
                   ELSE Truthy(walk.current)
    IN IF ~walk.found
       THEN Returns(<<Line("error", "fail", <<"Property not found", path>>)>>)
       ELSE IF success
       THEN Returns(<<Line("info", "pass", <<"Property validation passed", path>>)>>)
       ELSE Returns(<<Line("error", "fail", <<"Property validation failed", path>>)>>)

ResultToHaveProperty(result, path, value) ==
    LET props == Split(path, ".")
        walk == WalkProps(result.data, props, 1)
        success == IF value # Undefined THEN StrictEquals(walk.current, value)
                   ELSE walk.current # Undefined
    IN IF ~walk.found
       THEN Returns(<<Line("error", "fail", <<"Property not found", path>>)>>)
       ELSE IF success
       THEN Returns(<<Line("info", "pass", <<"Property validation passed", path>>)>>)
       ELSE Returns(<<Line("error", "fail", <<"Property validation failed", path>>)>>)

\* an assertion call is a record [kind, a1, a2]
ResultExpects(result, a) ==
    CASE a.kind = "toHaveStatus" -> ResultToHaveStatus(result, a.a1)
      [] a.kind = "toHaveData" -> ResultToHaveData(result, a.a1)
      [] a.kind = "toMatchData" -> ResultToMatchData(result, a.a1)
      [] a.kind = "toHaveHeader" -> ResultToHaveHeader(result, a.a1, a.a2)
      [] a.kind = "toHaveProperty" -> ResultToHaveProperty(result, a.a1, a.a2)

----------------------------------------------------------------------------
(* The deferred assertion surface: testPromise.expects.  Each method is an *)
(* async function; the operators below are its body after the line         *)
(* `const result = await resultPromise`.  An exception inside an async     *)
(* function rejects the promise it returned.                               *)

PromiseToHaveStatus(result, expectedStatus) ==
    LET success == result.status = expectedStatus
    IN IF success
       THEN Returns(<<Line("info", "pass", <<"Status is", expectedStatus>>)>>)
       ELSE Returns(<<Line("error", "fail",
                           <<"Expected status", expectedStatus, result.status>>)>>)

PromiseToHaveData(result, predicate) ==
    LET success == ApplyPredicate(predicate, result.data)
    IN CASE success = "throw" -> Throws(<<>>)
         [] success = "true" -> Returns(<<Line("info", "pass", <<"Data validation passed">>)>>)
         [] OTHER -> Returns(<<Line("error", "fail", <<"Data validation failed">>)>>)

PromiseToMatchData(result, expected) ==
    LET success == Stringify(result.data) = Stringify(expected)
    IN IF success
       THEN Returns(<<Line("info", "pass", <<"Data matches expected">>)>>)
       ELSE Returns(<<Line("error", "fail", <<"Data doesn't match expected">>),
                      Line("debug", "none", <<"debug", expected, result.data>>)>>)

\* mutant: the deferred form alone asking whether a value was given at all
PromiseToHaveHeader_ValueGiven(result, header, value) ==
    LET headerValue == HeadersGet(result.headers, header)
        success == IF value # Undefined THEN StrictEquals(headerValue, value)
                   ELSE headerValue # Null
    IN IF success
       THEN Returns(<<Line("info", "pass", <<"Header validation passed", header>>)>>)
       ELSE Returns(<<Line("error", "fail", <<"Header validation failed", header>>)>>)

PromiseToHaveHeader(result, header, value) ==
    LET headerValue == HeadersGet(result.headers, header)
        success == IF Truthy(value) THEN StrictEquals(headerValue, value)
                   ELSE Truthy(headerValue)
    IN IF success
       THEN Returns(<<Line("info", "pass", <<"Header validation passed", header>>)>>)
       ELSE Returns(<<Line("error", "fail", <<"Header validation failed", header>>)>>)

PromiseToHaveProperty(result, path, value) ==
    LET props == Split(path, ".")
        walk == WalkProps(result.data, props, 1)
        success == IF value # Undefined THEN StrictEquals(walk.current, value)
                   ELSE walk.current # Undefined
    IN IF ~walk.found
       THEN Returns(<<Line("error", "fail", <<"Property not found", path>>)>>)
       ELSE IF success
       THEN Returns(<<Line("info", "pass", <<"Property validation passed", path>>)>>)
       ELSE Returns(<<Line("error", "fail", <<"Property validation failed", path>>)>>)

PromiseExpects(result, a) ==
    CASE a.kind = "toHaveStatus" -> PromiseToHaveStatus(result, a.a1)
      [] a.kind = "toHaveData" -> PromiseToHaveData(result, a.a1)
      [] a.kind = "toMatchData" -> PromiseToMatchData(result, a.a1)
      [] a.kind = "toHaveHeader" -> PromiseToHaveHeader(result, a.a1, a.a2)
      [] a.kind = "toHaveProperty" -> PromiseToHaveProperty(result, a.a1, a.a2)

----------------------------------------------------------------------------
(* executeRequest up to the fetch call: URL, headers, body *)

HttpMethods == {"GET", "POST", "PUT", "PATCH", "DELETE"}
BodyTypes == {"json", "form", "formData", "text"}
DefaultTimeout == 30000

\* { ...a, ...b }: b wins on key collision
Spread(a, b) ==
    [k \in DOMAIN a \cup DOMAIN b |-> IF k \in DOMAIN b THEN b[k] ELSE a[k]]

SetKey(h, key, value) == [k \in DOMAIN h \cup {key} |-> IF k = key THEN value ELSE h[k]]
DeleteKey(h, key) == [k \in DOMAIN h \ {key} |-> h[k]]
NoHeaders == [k \in {} |-> ""]

\* this.authResponse.access_token is truthy
HasAccessToken(authResponse) ==
    "access_token" \in DOMAIN authResponse /\ authResponse.access_token # ""

\* String(value)
ToStringJS(v) ==
    CASE v.tag = "undefined" -> <<"u", "n", "d", "e", "f", "i", "n", "e", "d">>
      [] v.tag = "null" -> <<"n", "u", "l", "l">>
      [] v.tag \in {"number", "string"} -> v.val
      [] v.tag = "boolean" -> Stringify(v)
      [] v.tag = "array" -> JoinWith([i \in 1..Len(v.props) |->
                                        IF IsNullish(v.props[i].v) THEN <<>>
                                        ELSE v.props[i].v.val], <<",">>)
      [] OTHER -> <<"[", "o", "b", "j", "e", "c", "t", " ", "O", "b", "j", "e", "c", "t", "]">>

\* Object.entries(x): own properties in order (the characters of a string)
Entries(v) ==
    IF v.tag = "string" THEN [i \in 1..Len(v.val) |-> P(IndexKey(i), Str(<<v.val[i]>>))]
    ELSE v.props

\* URLSearchParams.toString() of appended pairs
UrlEncoded(pairs) ==
    JoinWith([i \in 1..Len(pairs) |-> pairs[i].k \o <<"=">> \o ToStringJS(pairs[i].v)], <<"&">>)

BuildUrl(baseUrl, endpoint, queryParams) ==
    IF Len(queryParams) > 0
    THEN baseUrl \o endpoint \o <<"?">> \o UrlEncoded(queryParams)
    ELSE baseUrl \o endpoint

\* mutant: the per-call headers are spread after the bearer token is set
MergedHeaders_CallerLast(defaultHeaders, headers, bearerAuth, authResponse) ==
    LET withAuth == IF bearerAuth /\ HasAccessToken(authResponse)
                    THEN SetKey(defaultHeaders, "Authorization",
                                "Bearer " \o authResponse.access_token)
                    ELSE defaultHeaders
    IN Spread(withAuth, headers)

\* lines 223-231: default headers, per-call headers, bearer token
MergedHeaders(defaultHeaders, headers, bearerAuth, authResponse) ==
    LET requestHeaders == Spread(defaultHeaders, headers)
    IN IF bearerAuth /\ HasAccessToken(authResponse)
       THEN SetKey(requestHeaders, "Authorization", "Bearer " \o authResponse.access_token)
       ELSE requestHeaders

\* lines 234-247: a default Content-Type unless one is already set (truthy)
WithContentType(requestHeaders, bodyType) ==
    IF "Content-Type" \notin DOMAIN requestHeaders \/ requestHeaders["Content-Type"] = ""
    THEN CASE bodyType = "json" -> SetKey(requestHeaders, "Content-Type", "application/json")
           [] bodyType = "form" ->
                SetKey(requestHeaders, "Content-Type", "application/x-www-form-urlencoded")
           [] bodyType = "text" -> SetKey(requestHeaders, "Content-Type", "text/plain")
           [] OTHER -> requestHeaders
    ELSE requestHeaders

NoBody == [enc |-> "none", text |-> <<>>, entries |-> <<>>]

\* lines 250-289: requestOptions, the body attached for POST, PUT and PATCH
RequestOptions(method, requestHeaders, timeout, bodyType, body) ==
    LET attach == Truthy(body) /\ method \in {"POST", "PUT", "PATCH"}
    IN [method |-> method,
        timeout |-> timeout,
        headers |-> IF attach /\ bodyType = "formData"
                    THEN DeleteKey(requestHeaders, "Content-Type")
                    ELSE requestHeaders,
        body |-> IF ~attach THEN NoBody
                 ELSE CASE bodyType = "json" ->
                             [enc |-> "json", text |-> Stringify(body), entries |-> <<>>]
                        [] bodyType = "form" ->
                             [enc |-> "form", text |-> UrlEncoded(Entries(body)), entries |-> <<>>]
                        [] bodyType = "formData" ->
                             [enc |-> "formData", text |-> <<>>,
                              entries |-> [i \in 1..Len(Entries(body)) |->
                                             P(Entries(body)[i].k, Str(ToStringJS(Entries(body)[i].v)))]]
                        [] bodyType = "text" ->
                             [enc |-> "text", text |-> ToStringJS(body), entries |-> <<>>]]

\* everything executeRequest hands to fetch
BuildRequest(o, baseUrl, defaultHeaders, authResponse) ==
    [url |-> BuildUrl(baseUrl, o.endpoint, o.queryParams),
     options |-> RequestOptions(o.method,
                    WithContentType(MergedHeaders(defaultHeaders, o.headers, o.bearerAuth,
                                                  authResponse), o.bodyType),
                    o.timeout, o.bodyType, o.body)]

----------------------------------------------------------------------------
(* Idle values of the machines a specification does not run *)

ReqOff == [phase |-> "off"]
AuthOff == [phase |-> "off"]
PureOff == [phase |-> "off"]
RunnerOff == [phase |-> "off"]

----------------------------------------------------------------------------
(* SpecAssert: one assertion applied to one settled TestResult.            *)
(* Init draws the response the result was built from and the assertion's   *)
(* arguments; the action is the call result.expects.X(...).                *)

PathChars == {"a", "0", "."}
Paths == UNION {[1..n -> PathChars] : n \in 0..MaxPathLen}

One == Num(<<"1">>)
Two == Num(<<"2">>)
Up == Str(<<"U", "P">>)

\* parsed bodies the property walk is tried on
PropBodies ==
    { Obj(<<P(<<"a">>, Up)>>),                                  \* {a:"UP"}
      Obj(<<P(<<"a">>, Obj(<<P(<<"a">>, One)>>))>>),            \* {a:{a:1}}
      Obj(<<P(<<"a">>, Null)>>),                                \* {a:null}
      Null,                                                     \* null
      Arr(<<Obj(<<P(<<"a">>, Bool(FALSE))>>)>>),                \* [{a:false}]
      Str(<<"0", "a">>),                                        \* text body "0a"
      Obj(<<P(<<>>, One)>>),                                    \* {"":1}
      Obj(<<P(<<"a">>, Num(<<"0">>)), P(<<"0">>, Str(<<>>))>>)  \* {a:0,"0":""}
    }

PropValues ==
    {Undefined, Null, One, Num(<<"0">>), Up, Str(<<>>), Bool(FALSE),
     Obj(<<P(<<"a">>, One)>>)}

MatchKeys == {<<"a">>, <<"b">>, <<"c">>}
KeyOrders == UNION {{ks \in [1..n -> MatchKeys] : \A i, j \in 1..n : i # j => ks[i] # ks[j]}
                    : n \in 0..MaxObjKeys}
FlatObjects ==
    UNION {{Obj([i \in 1..Len(ks) |-> P(ks[i], vs[i])]) : vs \in [1..Len(ks) -> {One, Two}]}
           : ks \in KeyOrders}
MatchBodies ==
    FlatObjects \cup
    { One, Str(<<"1">>), Null,
      Obj(<<P(<<"a">>, Obj(<<P(<<"a">>, One), P(<<"b">>, Two)>>))>>),
      Obj(<<P(<<"a">>, Obj(<<P(<<"b">>, Two), P(<<"a">>, One)>>))>>),
      Arr(<<One, Two>>), Arr(<<Two, One>>) }
MatchExpected == MatchBodies \cup {Undefined}

\* response headers, keyed by lower-case name as Headers stores them
ResponseHeaderSets ==
    UNION {[S -> {<<>>, <<"a">>}] : S \in SUBSET {"content-type", "x-custom"}}
JsonHeaders == [h \in {"content-type"} |-> <<"j">>]

Settled(status, data, headers) == TestResult(status, "", data, headers, 0, 1)

Assertion(kind, a1, a2) == [kind |-> kind, a1 |-> a1, a2 |-> a2]

PureInputs ==
    {[result |-> Settled(200, b, JsonHeaders), a |-> Assertion("toHaveProperty", p, v)]
        : b \in PropBodies, p \in Paths, v \in PropValues}
    \cup
    {[result |-> Settled(200, b, JsonHeaders), a |-> Assertion("toMatchData", e, Undefined)]
        : b \in MatchBodies, e \in MatchExpected}
    \cup
    {[result |-> Settled(st, Null, JsonHeaders), a |-> Assertion("toHaveStatus", e, Undefined)]
        : st \in {200, 401}, e \in {200, 401}}
    \cup
    {[result |-> Settled(200, b, JsonHeaders), a |-> Assertion("toHaveData", f, Undefined)]
        : b \in PropBodies, f \in {"nonEmptyArray", "activeEvents"}}
    \cup
    {[result |-> Settled(200, Null, h), a |-> Assertion("toHaveHeader", n, v)]
        : h \in ResponseHeaderSets, n \in {"Content-Type", "x-custom"},
          v \in {Undefined, Str(<<>>), Str(<<"a">>)}}

EngineIdle ==
    /\ callState = <<>>
    /\ network = <<>>
    /\ outcome = <<>>
    /\ held = <<>>
    /\ chain = <<>>
    /\ promises = <<>>
    /\ log = <<>>

InitAssert ==
    /\ EngineIdle
    /\ runner = RunnerOff
    /\ req = ReqOff
    /\ auth = AuthOff
    /\ \E in \in PureInputs :
          pure = [phase |-> "input", result |-> in.result, a |-> in.a, out |-> Returns(<<>>),
                  deferred |-> <<>>]

\* result.expects.X(...) on the settled result
CallResultExpects ==
    /\ pure.phase = "input"
    /\ pure' = [pure EXCEPT !.phase = "done", !.out = ResultExpects(pure.result, pure.a)]
    /\ UNCHANGED <<engineVars, req, auth, runner>>

\* handle.expects.X(...) on the handle of the same, settled request: the
\* method's `await resultPromise` gives the result and its body runs
CallPromiseExpects ==
    /\ pure.phase \in {"input", "done"}
    /\ pure.deferred = <<>>
    /\ pure' = [pure EXCEPT !.deferred = <<PromiseExpects(pure.result, pure.a)>>]
    /\ UNCHANGED <<engineVars, req, auth, runner>>

NextAssert == CallResultExpects \/ CallPromiseExpects

SpecAssert == InitAssert /\ [][NextAssert]_vars

PureDone(kind) == pure.phase = "done" /\ pure.a.kind = kind
PurePassed == pure.out.ret = "result" /\ pure.out.lines[1].mark = "pass"

----------------------------------------------------------------------------
(* C7 *)

\* the claim's notion of equality: by value, independent of the order in
\* which keys were inserted (no code of the engine computes it)
RECURSIVE StructEqual(_, _)
StructEqual(x, y) ==
    /\ x.tag = y.tag
    /\ x.val = y.val
    /\ CASE x.tag = "object" ->
               /\ {p.k : p \in Range(x.props)} = {p.k : p \in Range(y.props)}
               /\ \A p \in Range(x.props) : \A q \in Range(y.props) :
                      p.k = q.k => StructEqual(p.v, q.v)
         [] x.tag = "array" ->
               /\ Len(x.props) = Len(y.props)
               /\ \A i \in 1..Len(x.props) : StructEqual(x.props[i].v, y.props[i].v)
         [] OTHER -> TRUE

\* C7: toMatchData passes iff the parsed body and the expected value are
\* structurally equal by value, whatever the order of their keys.
C7_MatchIffStructurallyEqual ==
    PureDone("toMatchData") =>
        (PurePassed <=> StructEqual(pure.result.data, pure.a.a1))

----------------------------------------------------------------------------
(* C10 *)

\* the claim's notion of resolution: the value reached after resolving the
\* first n segments of the path, undefined below anything undefined or null
RECURSIVE ValueAt(_, _, _)
ValueAt(body, segs, n) ==
    IF n = 0 THEN body
    ELSE LET prev == ValueAt(body, segs, n - 1)
         IN IF IsNullish(prev) THEN Undefined ELSE GetProp(prev, segs[n])

IntermediateMissing(body, segs) ==
    \E i \in 1..(Len(segs) - 1) : IsNullish(ValueAt(body, segs, i))

\* C10: toHaveProperty reports "not found" when an intermediate segment is
\* absent or null; otherwise, given a value it passes iff the resolved value
\* is exactly equal to it, and given none it passes iff the resolved value
\* is defined.  It always returns the result.
C10_PropertyResolution ==
    PureDone("toHaveProperty") =>
        LET body == pure.result.data
            segs == Split(pure.a.a1, ".")
            value == pure.a.a2
            resolved == ValueAt(body, segs, Len(segs))
        IN /\ pure.out.ret = "result"
           /\ Len(pure.out.lines) = 1
           /\ IntermediateMissing(body, segs) =>
                  pure.out.lines[1].text[1] = "Property not found"
           /\ ~IntermediateMissing(body, segs) =>
                  (PurePassed <=> IF value # Undefined
                                  THEN StrictEquals(resolved, value)
                                  ELSE resolved # Undefined)

\* a two-segment path resolved through a nested object to the value asked for
C10_Witness ==
    /\ PureDone("toHaveProperty")
    /\ pure.a.a1 = <<"a", ".", "a">>
    /\ pure.a.a2 = One
    /\ PurePassed

----------------------------------------------------------------------------
(* SpecRequest: test(description, options) up to the fetch call.  Init     *)
(* draws the options and the AuthResponse the engine was created with.     *)

CallerHeaderKeys == {"Content-Type", "content-type", "Authorization"}
CallerHeaders == UNION {[S -> {"", "x"}] : S \in SUBSET CallerHeaderKeys}

\* the AuthResponse handed to BackendTest.create: with a token, with an
\* empty one, or without the field (index.ts hands over a bare string)
AuthResponses == {[access_token |-> "tok"], [access_token |-> ""], [token_type |-> "bearer"]}

RequestBodies == {Undefined, Str(<<>>), Obj(<<P(<<"a">>, One)>>)}
QueryParamSets == {<<>>, <<P(<<"a">>, One)>>}
BaseUrl == <<"h">>
Endpoint == <<"/", "e">>

TestOptionSets ==
    [method : HttpMethods, endpoint : {Endpoint}, bodyType : BodyTypes, body : RequestBodies,
     headers : CallerHeaders, queryParams : QueryParamSets, bearerAuth : BOOLEAN,
     timeout : {DefaultTimeout}]

InitRequest ==
    /\ EngineIdle
    /\ runner = RunnerOff
    /\ auth = AuthOff
    /\ pure = PureOff
    /\ \E o \in TestOptionSets, ar \in AuthResponses :
          req = [phase |-> "called", o |-> o, authResponse |-> ar,
                 defaultHeaders |-> NoHeaders, sent |-> <<>>]

\* executeRequest runs synchronously up to `await fetch(url, requestOptions)`
SendRequest ==
    /\ req.phase = "called"
    /\ req' = [req EXCEPT !.phase = "sent",
                           !.sent = <<BuildRequest(req.o, BaseUrl, req.defaultHeaders,
                                                   req.authResponse)>>]
    /\ UNCHANGED <<engineVars, auth, pure, runner>>

NextRequest == SendRequest

SpecRequest == InitRequest /\ [][NextRequest]_vars

Sent == req.phase = "sent"
SentHeaders == req.sent[1].options.headers

----------------------------------------------------------------------------
(* C8 *)

\* C8: a request made with bodyType formData goes out without any
\* content-type header key, whatever the method, body and caller headers.
C8_FormDataHasNoContentType ==
    (Sent /\ req.o.bodyType = "formData") =>
        \A k \in DOMAIN SentHeaders : LowerCase(k) # "content-type"

----------------------------------------------------------------------------
(* C9 *)

\* the claim's three layers, the Authorization layer present under
\* `authLayer`; Content-Type is settled by a later step of executeRequest
LayeredAs(authLayer) ==
    \A k \in (CallerHeaderKeys \cup DOMAIN req.defaultHeaders) \ {"Content-Type"} :
        IF k = "Authorization" /\ authLayer
        THEN /\ k \in DOMAIN SentHeaders
             /\ SentHeaders[k] = "Bearer " \o (IF "access_token" \in DOMAIN req.authResponse
                                                THEN req.authResponse.access_token
                                                ELSE "undefined")
        ELSE IF k \in DOMAIN req.o.headers
        THEN k \in DOMAIN SentHeaders /\ SentHeaders[k] = req.o.headers[k]
        ELSE IF k \in DOMAIN req.defaultHeaders
        THEN k \in DOMAIN SentHeaders /\ SentHeaders[k] = req.defaultHeaders[k]
        ELSE k \notin DOMAIN SentHeaders

\* C9 as claimed: default headers, then per-call headers, then, whenever
\* bearerAuth is requested, Authorization: Bearer <token>; no Authorization of
\* the engine's own when bearerAuth is not requested.
C9_BearerWheneverRequested == Sent => LayeredAs(req.o.bearerAuth)

\* C9 amended: the Authorization layer is added when bearerAuth is requested
\* and the engine holds a non-empty access token; in every other case the
\* engine adds no Authorization header of its own.
C9_BearerWhenTokenPresent ==
    Sent => LayeredAs(req.o.bearerAuth /\ HasAccessToken(req.authResponse))

\* the bearer token overriding an Authorization header the caller passed
C9_Witness ==
    /\ Sent
    /\ req.o.bearerAuth
    /\ "Authorization" \in DOMAIN req.o.headers
    /\ req.o.headers["Authorization"] = "x"
    /\ SentHeaders["Authorization"] = "Bearer tok"

----------------------------------------------------------------------------
(* The Auth client: getAccessToken and validateParams *)

GrantTypes == {"client_credentials", "exchange_code", "refresh_token", "password"}
CustomGrant == "device_code"

\* fields a caller may put in the parameter record: the ones the interfaces
\* declare and the snake_case ones the runner and the token endpoint use
ParamKeys == {"username", "password", "refreshToken", "exchangeCode",
              "refresh_token", "exchange_code"}
ParamRecords ==
    UNION {[S -> {"", "v"}] : S \in {T \in SUBSET ParamKeys : Cardinality(T) <= MaxParams}}

\* an argument that may be undefined
Given(x) == <<x>>
NotGiven == <<>>
IsGiven(arg) == arg # <<>>

\* !params?.key
Falsy(params, key) ==
    \/ ~IsGiven(params)
    \/ key \notin DOMAIN params[1]
    \/ params[1][key] = ""

\* String(params.key) as URLSearchParams.append coerces it
Coerced(params, key) == IF key \in DOMAIN params[1] THEN params[1][key] ELSE "undefined"

Error(message) == [name |-> "Error", message |-> message]
NoError == [name |-> "", message |-> <<>>]

\* mutant: the password grant checked for the username alone
ValidateParams_UsernameOnly(grantType, params) ==
    CASE grantType = "password" ->
            IF Falsy(params, "username")
            THEN <<Error(<<"Username and password are required for password grant type">>)>>
            ELSE <<>>
      [] grantType = "refresh_token" ->
            IF Falsy(params, "refreshToken")
            THEN <<Error(<<"Refresh token is required for refresh_token grant type">>)>>
            ELSE <<>>
      [] grantType = "exchange_code" ->
            IF Falsy(params, "exchangeCode")
            THEN <<Error(<<"Exchange code is required for exchange_code grant type">>)>>
            ELSE <<>>
      [] OTHER -> <<>>

\* validateParams: the error it throws, if any
ValidateParams(grantType, params) ==
    CASE grantType = "password" ->
            IF Falsy(params, "username") \/ Falsy(params, "password")
            THEN <<Error(<<"Username and password are required for password grant type">>)>>
            ELSE <<>>
      [] grantType = "refresh_token" ->
            IF Falsy(params, "refreshToken")
            THEN <<Error(<<"Refresh token is required for refresh_token grant type">>)>>
            ELSE <<>>
      [] grantType = "exchange_code" ->
            IF Falsy(params, "exchangeCode")
            THEN <<Error(<<"Exchange code is required for exchange_code grant type">>)>>
            ELSE <<>>
      [] grantType = "client_credentials" -> <<>>
      [] OTHER -> <<>>

\* the url-encoded form of the token request, as appended pairs
Field(name, value) == [name |-> name, value |-> value]
KeysInOrder(rec) ==
    LET order == <<"username", "password", "refreshToken", "exchangeCode",
                   "refresh_token", "exchange_code">>
        In(k) == k \in DOMAIN rec
    IN SelectSeq(order, In)

TokenForm(actualGrantType, params) ==
    <<Field("grant_type", actualGrantType)>> \o
    (IF ~IsGiven(params) THEN <<>>
     ELSE CASE actualGrantType = "password" ->
                  <<Field("username", Coerced(params, "username")),
                    Field("password", Coerced(params, "password"))>>
            [] actualGrantType = "refresh_token" ->
                  <<Field("refresh_token", Coerced(params, "refreshToken"))>>
            [] actualGrantType = "exchange_code" ->
                  <<Field("exchange_code", Coerced(params, "exchangeCode"))>>
            [] OTHER ->
                  [i \in 1..Len(KeysInOrder(params[1])) |->
                     Field(KeysInOrder(params[1])[i], params[1][KeysInOrder(params[1])[i]])])

\* mutant: every status below 400 taken for a success
ResponseOk_Below400(status) == status < 400

\* response.ok
ResponseOk(status) == status >= 200 /\ status <= 299

\* what the token endpoint may answer
TokenStatuses == {199, 200, 299, 300, 401}
TokenBodies == {"", "denied", "{full}", "{partial}", "{bare}"}
JsonValid(body) == body \in {"{full}", "{partial}", "{bare}"}
\* response.json(): the parsed fields; "{partial}" lacks access_token,
\* "{bare}" lacks expires_in as well
JsonData(body) ==
    CASE body = "{full}" ->
            [access_token |-> "tok", expires_in |-> 60, refresh_token |-> "ref",
             token_type |-> "bearer", client_id |-> "cid", internal_client |-> "true",
             client_service |-> "svc", account_id |-> "acc"]
      [] body = "{partial}" -> [expires_in |-> 0, token_type |-> "bearer"]
      [] OTHER -> [token_type |-> "bearer"]
\* Date.now() at the time the response is turned into an AuthResponse
Clock == {0, 5001}
DataField(data, key) == IF key \in DOMAIN data THEN <<data[key]>> ELSE <<>>

\* Date.now() + data.expires_in * 1000: NaN when expires_in is undefined
NaN == <<>>
ExpiryTime(data, now) ==
    IF "expires_in" \in DOMAIN data THEN <<now + data.expires_in * 1000>> ELSE NaN

\* new Date(t).toISOString(): the instant written as text, of which the
\* seconds and the milliseconds are kept apart ("...SS.mmmZ")
ToISOString(t) == [seconds |-> t \div 1000, millis |-> t % 1000]

\* mutant: the lifetime added as milliseconds
MakeAuthResponse_NotScaled(data, now) ==
    [access_token |-> DataField(data, "access_token"),
     expires_in |-> DataField(data, "expires_in"),
     expires_at |-> ToISOString(now + data.expires_in),
     refresh_token |-> DataField(data, "refresh_token"),
     token_type |-> DataField(data, "token_type"),
     client_id |-> DataField(data, "client_id"),
     internal_client |-> DataField(data, "internal_client"),
     client_service |-> DataField(data, "client_service"),
     account_id |-> DataField(data, "account_id")]

\* lines 200-210
MakeAuthResponse(data, now) ==
    [access_token |-> DataField(data, "access_token"),
     expires_in |-> DataField(data, "expires_in"),
     expires_at |-> ToISOString(ExpiryTime(data, now)[1]),
     refresh_token |-> DataField(data, "refresh_token"),
     token_type |-> DataField(data, "token_type"),
     client_id |-> DataField(data, "client_id"),
     internal_client |-> DataField(data, "internal_client"),
     client_service |-> DataField(data, "client_service"),
     account_id |-> DataField(data, "account_id")]

\* new Auth(clientId, clientSecret, grantType, baseUrl)
NewAuth(g) ==
    [phase |-> "constructed", grantType |-> g, actualGrantType |-> "",
     params |-> NotGiven, posts |-> <<>>, response |-> <<>>,
     error |-> NoError, returned |-> <<>>, receivedAt |-> 0,
     log |-> <<Line("info", "none", <<"Auth initialized", g>>)>>]

InitAuth ==
    /\ EngineIdle
    /\ runner = RunnerOff
    /\ req = ReqOff
    /\ pure = PureOff
    /\ \E g \in GrantTypes : auth = NewAuth(g)

\* getAccessToken up to its first await: overload resolution, validation,
\* the form body and the POST.  `first` is a grant type, a parameter record
\* or undefined; `second` a parameter record or undefined.
Requested(a, firstIsString, grant, record) ==
    LET actualGrantType == IF firstIsString THEN grant ELSE a.grantType
        params == record
        line == Line("info", "none", <<"Requesting access token", actualGrantType>>)
        invalid == ValidateParams(actualGrantType, params)
    IN IF invalid # <<>>
       THEN [a EXCEPT !.phase = "rejected",
                      !.actualGrantType = actualGrantType,
                      !.params = params,
                      !.error = invalid[1],
                      !.log = Append(@, line)]
       ELSE [a EXCEPT !.phase = "fetching",
                      !.actualGrantType = actualGrantType,
                      !.params = params,
                      !.posts = Append(@, [method |-> "POST",
                                           body |-> TokenForm(actualGrantType, params)]),
                      !.log = Append(@, line)]

GetAccessToken(firstIsString, grant, record) ==
    /\ auth.phase = "constructed"
    /\ auth' = Requested(auth, firstIsString, grant, record)
    /\ UNCHANGED <<engineVars, req, pure, runner>>

\* catch (error) { logger.error(...); throw error }
Rethrow(a, error) ==
    [a EXCEPT !.phase = "rejected", !.error = error,
              !.log = Append(@, Line("error", "none", <<"Failed to get access token">>))]

\* fetch resolves with the endpoint's answer
TokenEndpointAnswers(status, body) ==
    /\ auth.phase = "fetching"
    /\ auth' = [auth EXCEPT !.phase = IF ResponseOk(status) THEN "parsing" ELSE "readingError",
                            !.response = <<[status |-> status, body |-> body]>>]
    /\ UNCHANGED <<engineVars, req, pure, runner>>

\* fetch rejects: the POST never got an answer
TokenFetchFails ==
    /\ auth.phase = "fetching"
    /\ auth' = Rethrow(auth, Error(<<"fetch failed">>))
    /\ UNCHANGED <<engineVars, req, pure, runner>>

\* lines 188-196: await response.text(), log, throw
TokenErrorRead ==
    /\ auth.phase = "readingError"
    /\ LET status == auth.response[1].status
           errorText == auth.response[1].body
           logged == [auth EXCEPT !.log = Append(@, Line("error", "none",
                                      <<"Failed to get access token:", status, errorText>>))]
       IN auth' = Rethrow(logged, Error(<<"Authentication failed:", status, errorText>>))
    /\ UNCHANGED <<engineVars, req, pure, runner>>

\* lines 198-213: await response.json(), build the AuthResponse; toISOString
\* throws a RangeError on an invalid date
TokenParsed(now) ==
    /\ auth.phase = "parsing"
    /\ LET body == auth.response[1].body
       IN IF ~JsonValid(body)
          THEN auth' = Rethrow(auth, Error(<<"JSON Parse error">>))
          ELSE IF ExpiryTime(JsonData(body), now) = NaN
          THEN auth' = Rethrow([auth EXCEPT !.receivedAt = now],
                               [name |-> "RangeError", message |-> <<"Invalid time value">>])
          ELSE auth' = [auth EXCEPT
                          !.phase = "resolved",
                          !.receivedAt = now,
                          !.returned = <<MakeAuthResponse(JsonData(body), now)>>,
                          !.log = Append(@, Line("info", "none",
                                     <<"Successfully obtained access token",
                                       JsonData(body).expires_in>>))]
    /\ UNCHANGED <<engineVars, req, pure, runner>>

\* the ways a caller invokes getAccessToken: (grantType, params?) or (params?)
CallGetAccessToken ==
    /\ auth.phase = "constructed"
    /\ \E record \in {NotGiven} \cup {Given(r) : r \in ParamRecords} :
          \/ \E g \in GrantTypes \cup {CustomGrant} : GetAccessToken(TRUE, g, record)
          \/ GetAccessToken(FALSE, "", record)

TokenEndpointResponds ==
    /\ auth.phase = "fetching"
    /\ \E status \in TokenStatuses, body \in TokenBodies : TokenEndpointAnswers(status, body)

TokenBodyParsed ==
    /\ auth.phase = "parsing"
    /\ \E now \in Clock : TokenParsed(now)

NextAuth ==
    \/ CallGetAccessToken
    \/ TokenEndpointResponds
    \/ TokenFetchFails
    \/ TokenErrorRead
    \/ TokenBodyParsed

SpecAuth == InitAuth /\ [][NextAuth]_vars

----------------------------------------------------------------------------
(* C4 *)

\* the fields each grant's parameter interface declares (PasswordParams,
\* RefreshTokenParams, ExchangeCodeParams)
Mandated(grantType) ==
    CASE grantType = "password" -> {"username", "password"}
      [] grantType = "refresh_token" -> {"refreshToken"}
      [] grantType = "exchange_code" -> {"exchangeCode"}
      [] OTHER -> {}

MandatedMissing(grantType, params) ==
    \E k \in Mandated(grantType) :
        ~IsGiven(params) \/ k \notin DOMAIN params[1] \/ params[1][k] = ""

ValidationMessages ==
    {<<"Username and password are required for password grant type">>,
     <<"Refresh token is required for refresh_token grant type">>,
     <<"Exchange code is required for exchange_code grant type">>}

AuthCalled == auth.phase \notin {"off", "constructed"}

\* C4: for password, refresh_token and exchange_code a missing or empty
\* mandated parameter makes the acquisition fail with an invalid-parameters
\* error with no request sent; client_credentials and custom grant types
\* never fail validation.
C4_ValidationBeforeNetwork ==
    AuthCalled =>
        /\ MandatedMissing(auth.actualGrantType, auth.params) =>
              /\ auth.phase = "rejected"
              /\ auth.error.message \in ValidationMessages
              /\ auth.posts = <<>>
              /\ auth.returned = <<>>
        /\ auth.actualGrantType \in {"client_credentials", CustomGrant} =>
              auth.error.message \notin ValidationMessages

\* a password grant called with a username and an empty password
C4_Witness ==
    /\ auth.phase = "rejected"
    /\ auth.actualGrantType = "password"
    /\ IsGiven(auth.params)
    /\ auth.params[1] = [k \in {"username", "password"} |-> IF k = "username" THEN "v" ELSE ""]
    /\ auth.posts = <<>>

----------------------------------------------------------------------------
(* C5 *)

Answered == AuthCalled /\ auth.response # <<>>

\* C5: a non-2xx answer makes the acquisition fail with an
\* authentication-failed error carrying the status and the body; no
\* AuthResponse is returned and exactly one POST was sent.
C5_NonOkFailsOnce ==
    (Answered /\ ~(auth.response[1].status \in 200..299)) =>
        /\ auth.phase \in {"readingError", "rejected"}
        /\ auth.returned = <<>>
        /\ Len(auth.posts) = 1
        /\ auth.phase = "rejected" =>
              auth.error = Error(<<"Authentication failed:", auth.response[1].status,
                                   auth.response[1].body>>)

\* a 401 with a body, surfaced to the caller
C5_Witness ==
    /\ auth.phase = "rejected"
    /\ Answered
    /\ auth.response[1] = [status |-> 401, body |-> "denied"]
    /\ auth.error = Error(<<"Authentication failed:", 401, "denied">>)
    /\ Len(auth.posts) = 1

----------------------------------------------------------------------------
(* Spec: the request/assertion engine.  Test calls are numbered in the     *)
(* order they are made; the number stands for the description.             *)

\* the test module tests/lightswitch/single.ts: two GET calls made one
\* after the other, the first with bearerAuth, the second without
Get(options) ==
    [method |-> "GET", endpoint |-> Endpoint, bodyType |-> "json", body |-> Undefined,
     headers |-> options.headers, queryParams |-> <<>>, bearerAuth |-> options.bearerAuth,
     timeout |-> DefaultTimeout]
TestModule ==
    <<Get([bearerAuth |-> TRUE, headers |-> NoHeaders]),
      Get([bearerAuth |-> FALSE, headers |-> NoHeaders])>>

EngineAuthResponse == [access_token |-> "tok"]

\* what the backend may answer: 200 with a JSON body, 401 with a text
\* body, 200 declaring JSON with a body that does not parse
BackendResponses ==
    {[status |-> 200, statusText |-> "OK", headers |-> JsonHeaders,
      valid |-> TRUE, json |-> Obj(<<P(<<"a">>, Up)>>), text |-> <<>>],
     [status |-> 401, statusText |-> "Unauthorized", headers |-> [h \in {} |-> <<>>],
      valid |-> TRUE, json |-> Null, text |-> <<"0", "a">>],
     [status |-> 200, statusText |-> "OK", headers |-> JsonHeaders,
      valid |-> FALSE, json |-> Null, text |-> <<"{">>]}

\* Date.now() - startTime
ResponseTimes == {3}

\* the assertions the test modules chain
EngineAssertions ==
    {Assertion("toHaveStatus", 200, Undefined),
     Assertion("toHaveData", "activeEvents", Undefined)}

NoResult == TestResult(0, "", Undefined, [h \in {} |-> <<>>], 0, 0)
Pending == [response |-> <<>>, responseTime |-> 0, result |-> NoResult, error |-> NoError]

\* own properties of a native promise, of the handle test() returns
\* (line 92 adds `expects`), and of a TestResult
NativePromiseProps == {"then", "catch", "finally"}
TestPromiseProps == NativePromiseProps \cup {"expects"}
\* what an `async (...) => { ...; return result }` method returns
AsyncReturnProps == NativePromiseProps

Calls == 1..Len(callState)
PromiseIds == 1..Len(promises)
PromisesOf(c) == {p \in PromiseIds : promises[p].call = c}
RECURSIVE SumLen(_)
SumLen(seqs) == IF seqs = <<>> THEN 0 ELSE Len(Head(seqs)) + SumLen(Tail(seqs))
Asserted == SumLen(chain) + Len(promises)
Fetches(c) == Cardinality({i \in 1..Len(network) : network[i].call = c})

Described(c, lines) == [i \in 1..Len(lines) |->
                          [desc |-> c, level |-> lines[i].level, mark |-> lines[i].mark,
                           text |-> lines[i].text]]

\* mutant: an assertion issuing the request again instead of awaiting the
\* promise test() created
AwaitResultPromise_Reissue(net, c) ==
    Append(net, net[CHOOSE i \in 1..Len(net) : net[i].call = c])

\* `await resultPromise`: the one promise created at line 80; the network is
\* not touched
AwaitResultPromise(net, c) == net

\* mutant: the assertion body run without waiting for the request
RequestSettled_NoWait(state) == TRUE

\* an awaited resultPromise lets the continuation run once it has settled
RequestSettled(state) == state \in {"fulfilled", "rejected"}

Init ==
    /\ EngineIdle
    /\ runner = RunnerOff
    /\ req = ReqOff
    /\ auth = AuthOff
    /\ pure = PureOff

\* test(description, options), and get/post/put/patch/delete through it:
\* logs, runs executeRequest up to `await fetch`, attaches `expects`
Test(o) ==
    /\ LET c == Len(callState) + 1
       IN /\ log' = log \o Described(c, <<Line("info", "run", <<"Running test">>)>>)
          /\ network' = Append(network,
                [call |-> c, request |-> BuildRequest(o, BaseUrl, NoHeaders, EngineAuthResponse),
                 elapsed |-> FALSE])
          /\ callState' = Append(callState, "fetching")
          /\ outcome' = Append(outcome, Pending)
          /\ held' = Append(held, "handle")
          /\ chain' = Append(chain, <<>>)
    /\ UNCHANGED <<promises, req, auth, pure, runner>>

\* mutant: the failure swallowed, an empty result handed to the caller
RequestFails_Swallowed(c, error) ==
    /\ callState' = [callState EXCEPT ![c] = "fulfilled"]
    /\ outcome' = [outcome EXCEPT ![c].error = error]
    /\ log' = log \o Described(c, <<Line("error", "error", <<"Test failed">>)>>)

\* catch (error) { logger.error({...}); throw error }
RequestFails(c, error) ==
    /\ callState' = [callState EXCEPT ![c] = "rejected"]
    /\ outcome' = [outcome EXCEPT ![c].error = error]
    /\ log' = log \o Described(c, <<Line("error", "error", <<"Test failed">>)>>)

\* fetch resolves
FetchResolves(c, response, responseTime) ==
    /\ callState[c] = "fetching"
    /\ callState' = [callState EXCEPT ![c] = "parsing"]
    /\ outcome' = [outcome EXCEPT ![c].response = <<response>>,
                                   ![c].responseTime = responseTime]
    /\ UNCHANGED <<network, held, chain, promises, log, req, auth, pure, runner>>

\* fetch rejects
FetchRejects(c) ==
    /\ callState[c] = "fetching"
    /\ RequestFails(c, Error(<<"fetch failed">>))
    /\ UNCHANGED <<network, held, chain, promises, req, auth, pure, runner>>

\* await response.json() / response.text(), then the result is built
BodyRead(c) ==
    /\ callState[c] = "parsing"
    /\ LET response == outcome[c].response[1]
           isJson == "content-type" \in DOMAIN response.headers
                        /\ response.headers["content-type"] = <<"j">>
       IN IF isJson /\ ~response.valid
          THEN RequestFails(c, Error(<<"JSON Parse error">>))
          ELSE /\ callState' = [callState EXCEPT ![c] = "fulfilled"]
               /\ outcome' = [outcome EXCEPT ![c].result =
                      TestResult(response.status, response.statusText,
                                 IF isJson THEN response.json ELSE Str(response.text),
                                 response.headers, outcome[c].responseTime, c)]
               /\ UNCHANGED log
    /\ UNCHANGED <<network, held, chain, promises, req, auth, pure, runner>>

\* the caller's `await` of the handle
AwaitHandle(c) ==
    /\ held[c] = "handle"
    /\ RequestSettled(callState[c])
    /\ held' = [held EXCEPT ![c] = IF callState[c] = "fulfilled" THEN "result"
                                   ELSE "thrown: request"]
    /\ UNCHANGED <<callState, network, outcome, chain, promises, log, req, auth, pure, runner>>

\* mutant: an assertion that records its verdict in the result it returns
ExpectOnResult_Marking(c, a) ==
    /\ held[c] = "result"
    /\ Asserted < MaxAsserts
    /\ LET out == ResultExpects(outcome[c].result, a)
           failed == out.lines # <<>> /\ out.lines[1].mark = "fail"
       IN /\ chain' = [chain EXCEPT ![c] = Append(@, [a |-> a, out |-> out])]
          /\ log' = log \o Described(c, out.lines)
          /\ held' = [held EXCEPT ![c] = IF out.ret = "throw" THEN "thrown: assertion"
                                         ELSE "result"]
          /\ outcome' = [outcome EXCEPT ![c].result.statusText =
                            IF failed THEN "failed" ELSE @]
    /\ UNCHANGED <<callState, network, promises, req, auth, pure, runner>>

\* result.expects.X(...) on the awaited result
ExpectOnResult(c, a) ==
    /\ held[c] = "result"
    /\ Asserted < MaxAsserts
    /\ LET out == ResultExpects(outcome[c].result, a)
       IN /\ chain' = [chain EXCEPT ![c] = Append(@, [a |-> a, out |-> out])]
          /\ log' = log \o Described(c, out.lines)
          /\ held' = [held EXCEPT ![c] = IF out.ret = "throw" THEN "thrown: assertion"
                                         ELSE "result"]
    /\ UNCHANGED <<callState, network, outcome, promises, req, auth, pure, runner>>

\* handle.expects.X(...): the async method starts and suspends at
\* `await resultPromise`, handing a promise back to the caller
ExpectOnHandle(c, a) ==
    /\ c \in Calls
    /\ "expects" \in TestPromiseProps
    /\ Asserted < MaxAsserts
    /\ promises' = Append(promises,
          [call |-> c, a |-> a, state |-> "pending", early |-> ~RequestSettled(callState[c]),
           props |-> AsyncReturnProps, error |-> NoError, use |-> "none"])
    /\ network' = AwaitResultPromise(network, c)
    /\ UNCHANGED <<callState, outcome, held, chain, log, req, auth, pure, runner>>

\* mutant: a deferred assertion reporting the failed request itself
ExpectResumes_Reports(p) ==
    /\ promises[p].state = "pending"
    /\ LET c == promises[p].call
       IN /\ RequestSettled(callState[c])
          /\ IF callState[c] = "rejected"
             THEN /\ promises' = [promises EXCEPT ![p].state = "rejected",
                                                   ![p].error = outcome[c].error]
                  /\ log' = log \o Described(c, <<Line("error", "error", <<"Test failed">>)>>)
             ELSE LET out == PromiseExpects(outcome[c].result, promises[p].a)
                  IN /\ log' = log \o Described(c, out.lines)
                     /\ promises' = [promises EXCEPT
                            ![p].state = IF out.ret = "throw" THEN "rejected" ELSE "fulfilled",
                            ![p].error = IF out.ret = "throw" THEN Error(<<"TypeError">>)
                                         ELSE NoError]
    /\ UNCHANGED <<callState, network, outcome, held, chain, req, auth, pure, runner>>

\* the suspended method continues once resultPromise has settled
ExpectResumes(p) ==
    /\ promises[p].state = "pending"
    /\ LET c == promises[p].call
       IN /\ RequestSettled(callState[c])
          /\ IF callState[c] = "rejected"
             THEN /\ promises' = [promises EXCEPT ![p].state = "rejected",
                                                   ![p].error = outcome[c].error]
                  /\ UNCHANGED log
             ELSE LET out == PromiseExpects(outcome[c].result, promises[p].a)
                  IN /\ log' = log \o Described(c, out.lines)
                     /\ promises' = [promises EXCEPT
                            ![p].state = IF out.ret = "throw" THEN "rejected" ELSE "fulfilled",
                            ![p].error = IF out.ret = "throw" THEN Error(<<"TypeError">>)
                                         ELSE NoError]
    /\ UNCHANGED <<callState, network, outcome, held, chain, req, auth, pure, runner>>

\* the caller chains on what handle.expects.X(...) returned, without an
\* await: `.expects.Y(...)`.  Reading a property of undefined is a TypeError.
ChainOnPromise(p, a) ==
    /\ promises[p].use = "none"
    /\ IF "expects" \in promises[p].props
       THEN /\ Asserted < MaxAsserts
            /\ promises' = Append([promises EXCEPT ![p].use = "chained"],
                  [call |-> promises[p].call, a |-> a, state |-> "pending",
                   early |-> ~RequestSettled(callState[promises[p].call]),
                   props |-> AsyncReturnProps, error |-> NoError, use |-> "none"])
       ELSE promises' = [promises EXCEPT ![p].use = "TypeError"]
    /\ UNCHANGED <<callState, network, outcome, held, chain, log, req, auth, pure, runner>>

\* the module's next call: its calls are top-level awaits, so a call is
\* made once the one before it has been awaited and has yielded its result
StartTest ==
    /\ Len(callState) < Len(TestModule)
    /\ callState # <<>> => held[Len(callState)] = "result"
    /\ Test(TestModule[Len(callState) + 1])
FetchSettles ==
    \E c \in Calls :
        \/ \E r \in BackendResponses, t \in ResponseTimes : FetchResolves(c, r, t)
        \/ FetchRejects(c)
BodySettles == \E c \in Calls : BodyRead(c)
CallerAwaits == \E c \in Calls : AwaitHandle(c)
DirectExpect == \E c \in Calls, a \in EngineAssertions : ExpectOnResult(c, a)
DeferredExpect == \E c \in Calls, a \in EngineAssertions : ExpectOnHandle(c, a)
DeferredResume == \E p \in PromiseIds : ExpectResumes(p)
DeferredChain == \E p \in PromiseIds, a \in {Assertion("toHaveStatus", 200, Undefined)} :
                    ChainOnPromise(p, a)

Next ==
    \/ StartTest
    \/ FetchSettles
    \/ BodySettles
    \/ CallerAwaits
    \/ DirectExpect
    \/ DeferredExpect
    \/ DeferredResume
    \/ DeferredChain

Spec == Init /\ [][Next]_vars

----------------------------------------------------------------------------
(* C1 *)

\* C1: every test call performs exactly one network exchange, and the
\* count stays at one whatever assertions are invoked on its handle or on
\* its result, before or after the request settles.
C1_OneExchangePerCall == \A c \in Calls : Fetches(c) = 1

\* a call asserted on through its handle before it settled and on its
\* result afterwards
C1_Witness ==
    \E c \in Calls :
        /\ \E p \in PromisesOf(c) : promises[p].early /\ promises[p].state = "fulfilled"
        /\ Len(chain[c]) = 1
        /\ Fetches(c) = 1

----------------------------------------------------------------------------
(* C2 *)

\* C2: an assertion called through `.expects` on the handle before the
\* request settled returns an awaitable that itself carries `.expects`, so a
\* further assertion can be chained on it without an await.
C2_AssertionPromiseChains ==
    \A p \in PromiseIds :
        promises[p].early => ("expects" \in promises[p].props /\ promises[p].use # "TypeError")

----------------------------------------------------------------------------
(* C3 *)

IsAssertionLine(l) == l.mark \in {"pass", "fail"}

\* C3: an assertion invoked on the pending handle neither evaluates nor
\* logs before the exchange of its test call has settled: whenever one of
\* its lines is in the log, or its promise has settled, the call has settled.
C3_AssertionAfterSettlement ==
    /\ \A i \in 1..Len(log) :
          IsAssertionLine(log[i]) => callState[log[i].desc] = "fulfilled"
    /\ \A p \in PromiseIds :
          promises[p].state # "pending" =>
              callState[promises[p].call] \in {"fulfilled", "rejected"}

\* an assertion invoked while the request was in flight, evaluated and
\* logged after it settled
C3_Witness ==
    \E p \in PromiseIds :
        /\ promises[p].early
        /\ promises[p].state = "fulfilled"
        /\ \E i \in 1..Len(log) : IsAssertionLine(log[i]) /\ log[i].desc = promises[p].call

----------------------------------------------------------------------------
(* C6 *)

RECURSIVE ChainLines(_, _)
ChainLines(c, entries) ==
    IF entries = <<>> THEN <<>>
    ELSE Described(c, Head(entries).out.lines) \o ChainLines(c, Tail(entries))

CallLines(c) ==
    LET Of(l) == l.desc = c /\ l.mark \notin {"run", "error"}
    IN SelectSeq(log, Of)

\* C6: an assertion whose check fails never raises: it logs a fail line and
\* returns the result, so the chain on a resolved result goes on (every
\* assertion called is evaluated and logged, in order) and the module's
\* next test is not stopped.  Only an exception of a toHaveData predicate
\* escapes, and then nothing is logged as failed.
C6_FailureIsLoggedNotRaised ==
    \A c \in Calls :
        /\ \A i \in 1..Len(chain[c]) :
              LET e == chain[c][i]
              IN /\ e.out.ret = "throw" => (e.a.kind = "toHaveData" /\ e.out.lines = <<>>)
                 /\ e.out.ret = "result" =>
                        (e.out.lines # <<>> /\ IsAssertionLine(e.out.lines[1]))
        /\ (chain[c] # <<>> /\ chain[c][Len(chain[c])].out.ret = "result") => held[c] = "result"
        /\ PromisesOf(c) = {} => CallLines(c) = ChainLines(c, chain[c])

\* a failed assertion followed by a further assertion on the same result,
\* and by the module's next test
C6_Witness ==
    /\ Len(callState) = 2
    /\ Len(chain[1]) = 2
    /\ chain[1][1].out.lines[1].mark = "fail"
    /\ chain[1][2].out.ret = "result"
    /\ Len(CallLines(1)) = 2

----------------------------------------------------------------------------
(* C11 *)

\* the claim's notion of presence: the name, compared without regard to
\* case, is one of the response's header names
HeaderPresent(headers, name) == LowerCase(name) \in DOMAIN headers

\* C11: toHaveHeader passes iff the named header is present and, when a
\* value argument is given (the empty string included), the header's value
\* is exactly that argument; a header present with an empty value is present.
C11_HeaderPresentAndExact ==
    PureDone("toHaveHeader") =>
        LET headers == pure.result.headers
            name == pure.a.a1
            value == pure.a.a2
        IN PurePassed <=>
              /\ HeaderPresent(headers, name)
              /\ value # Undefined => headers[LowerCase(name)] = value.val

----------------------------------------------------------------------------
(* SpecTimed: the engine with the passage of time.  The timeout of a call  *)
(* is a number placed in the fetch options (lines 249-254); the program    *)
(* starts no timer and creates no abort signal, so the moment the timeout  *)
(* has elapsed changes nothing but the age of the exchange.                *)

\* `timeout` milliseconds have passed since fetch was called for call c
TimeoutElapses(c) ==
    /\ callState[c] = "fetching"
    /\ \E i \in 1..Len(network) :
          /\ network[i].call = c
          /\ ~network[i].elapsed
          /\ network' = [network EXCEPT ![i].elapsed = TRUE]
    /\ UNCHANGED <<callState, outcome, held, chain, promises, log, req, auth, pure, runner>>

TimePasses == \E c \in Calls : TimeoutElapses(c)

NextTimed ==
    \/ StartTest
    \/ FetchSettles
    \/ BodySettles
    \/ CallerAwaits
    \/ DirectExpect
    \/ DeferredExpect
    \/ DeferredResume
    \/ DeferredChain
    \/ TimePasses

\* time passes and the event loop runs every continuation that is ready;
\* nothing obliges the backend to answer
SpecTimed ==
    /\ Init
    /\ [][NextTimed]_vars
    /\ WF_vars(TimePasses)
    /\ WF_vars(BodySettles)
    /\ WF_vars(CallerAwaits)
    /\ WF_vars(DeferredResume)

(* C12 *)

Overdue(c) ==
    /\ c \in Calls
    /\ callState[c] = "fetching"
    /\ \E i \in 1..Len(network) : network[i].call = c /\ network[i].elapsed

\* C12: a call whose exchange is still in flight when its timeout has
\* elapsed is aborted: it eventually rejects, and stays pending never.
C12_TimeoutRejects ==
    \A c \in 1..Len(TestModule) :
        Overdue(c) ~> (c \in Calls /\ callState[c] = "rejected")

----------------------------------------------------------------------------
(* C13 *)

\* the response of call c declares JSON and its body does not parse
Unparsable(c) ==
    /\ outcome[c].response # <<>>
    /\ "content-type" \in DOMAIN outcome[c].response[1].headers
    /\ outcome[c].response[1].headers["content-type"] = <<"j">>
    /\ ~outcome[c].response[1].valid

\* C13: a call whose exchange or whose parsing failed is rejected with the
\* underlying error, the error is in the log, and no TestResult is delivered
\* for it: none to the awaiting caller, none to a deferred assertion.
C13_FailureRejectsWithoutResult ==
    \A c \in Calls :
        /\ Unparsable(c) => callState[c] \in {"parsing", "rejected"}
        /\ callState[c] = "rejected" =>
              /\ outcome[c].error = IF outcome[c].response = <<>>
                                    THEN Error(<<"fetch failed">>)
                                    ELSE Error(<<"JSON Parse error">>)
              /\ outcome[c].response # <<>> => Unparsable(c)
              /\ \E i \in 1..Len(log) : log[i].desc = c /\ log[i].mark = "error"
              /\ outcome[c].result = NoResult
              /\ held[c] # "result"
              /\ chain[c] = <<>>
              /\ \A p \in PromisesOf(c) : promises[p].state # "fulfilled"

\* a response that does not parse, the caller's await has thrown
C13_Witness ==
    \E c \in Calls :
        /\ Unparsable(c)
        /\ callState[c] = "rejected"
        /\ held[c] = "thrown: request"

----------------------------------------------------------------------------
(* C16 *)

\* the claim's notion of the grant-specific fields, in the order sent
GrantFields(grantType, record) ==
    CASE grantType = "password" ->
            <<Field("username", record["username"]), Field("password", record["password"])>>
      [] grantType = "refresh_token" ->
            <<Field("refresh_token", record["refreshToken"])>>
      [] grantType = "exchange_code" ->
            <<Field("exchange_code", record["exchangeCode"])>>
      [] grantType = "client_credentials" -> <<>>
      [] OTHER -> [i \in 1..Len(KeysInOrder(record)) |->
                     Field(KeysInOrder(record)[i], record[KeysInOrder(record)[i]])]

\* C16: the form body of the token request is grant_type followed by exactly
\* the grant-specific fields: username and password, refresh_token,
\* exchange_code, nothing for client_credentials whatever record was
\* passed, every supplied parameter for a custom grant type.
C16_FormHasGrantFields ==
    auth.phase # "off" /\ auth.posts # <<>> =>
        auth.posts[1].body =
            <<Field("grant_type", auth.actualGrantType)>> \o
            (IF IsGiven(auth.params) THEN GrantFields(auth.actualGrantType, auth.params[1])
             ELSE <<>>)

----------------------------------------------------------------------------
(* C17 *)

\* Date.parse of the text toISOString wrote, in milliseconds
DateParse(iso) == iso.seconds * 1000 + iso.millis

CopiedFields ==
    {"access_token", "expires_in", "refresh_token", "token_type", "client_id",
     "internal_client", "client_service", "account_id"}

\* C17: a returned AuthResponse has expires_at = time of receipt +
\* expires_in seconds, and every other field as the endpoint sent it.
C17_ExpiryFromLifetime ==
    auth.phase = "resolved" =>
        LET data == JsonData(auth.response[1].body)
            r == auth.returned[1]
        IN /\ "expires_in" \in DOMAIN data
           /\ DateParse(r.expires_at) = auth.receivedAt + 1000 * data.expires_in
           /\ \A k \in CopiedFields :
                 r[k] = IF k \in DOMAIN data THEN <<data[k]>> ELSE <<>>

\* a token with a 60 s lifetime received when the clock read 5001 ms
C17_Witness ==
    /\ auth.phase = "resolved"
    /\ auth.receivedAt = 5001
    /\ auth.returned[1].expires_in = <<60>>
    /\ auth.returned[1].expires_at = [seconds |-> 65, millis |-> 1]

----------------------------------------------------------------------------
(* C18 *)

\* the TestResult the request of call c produced, from the response received
ProducedBy(c) ==
    LET response == outcome[c].response[1]
        isJson == "content-type" \in DOMAIN response.headers
                     /\ response.headers["content-type"] = <<"j">>
    IN [status |-> response.status, statusText |-> response.statusText,
        data |-> IF isJson THEN response.json ELSE Str(response.text),
        headers |-> response.headers, responseTime |-> outcome[c].responseTime,
        description |-> c]

\* an assertion has just been called on the resolved result of call c
AssertedOn(c) == Len(chain'[c]) = Len(chain[c]) + 1
LastOf(c) == chain'[c][Len(chain'[c])]

\* C18 as stated: every assertion called on a resolved TestResult returns
\* that TestResult and leaves it as the request produced it.
C18_EveryAssertionReturnsResult ==
    [][\A c \in Calls :
          AssertedOn(c) =>
              /\ outcome[c].result = ProducedBy(c)
              /\ outcome'[c].result = outcome[c].result
              /\ LastOf(c).out.ret = "result"
              /\ held'[c] = "result"]_vars

\* C18, amended: no assertion changes the TestResult, and every assertion
\* that passes or fails returns it; a toHaveData whose predicate throws
\* returns nothing, the exception escapes to the caller.
C18_AssertionsLeaveResult ==
    [][\A c \in Calls :
          AssertedOn(c) =>
              /\ outcome[c].result = ProducedBy(c)
              /\ outcome'[c].result = outcome[c].result
              /\ IF LastOf(c).a.kind = "toHaveData"
                    /\ ApplyPredicate(LastOf(c).a.a1, outcome[c].result.data) = "throw"
                 THEN LastOf(c).out.ret = "throw" /\ held'[c] = "thrown: assertion"
                 ELSE LastOf(c).out.ret = "result" /\ held'[c] = "result"]_vars

\* a passing and a failing assertion chained on one result, the result
\* still the one the request produced
C18_Witness ==
    \E c \in Calls :
        /\ Len(chain[c]) = 2
        /\ {chain[c][1].out.lines[1].mark, chain[c][2].out.lines[1].mark} = {"pass", "fail"}
        /\ held[c] = "result"
        /\ outcome[c].result = ProducedBy(c)

----------------------------------------------------------------------------
(* SpecRunner: the top-level runner.  main() parses the arguments, gets a  *)
(* token through the Auth client, assigns the exported backend, collects   *)
(* the test files and imports them one after the other.  A test module     *)
(* makes its requests at its top level, each awaited before the next.      *)

\* the parsed command line: `--key value` pairs
CliGrantTypes == GrantTypes \cup {"bogus"}
CliOptionalKeys == {"exchange_code", "username", "password", "refresh_token"}
CliOptional ==
    UNION {[S -> {"", "v"}] : S \in {T \in SUBSET CliOptionalKeys : Cardinality(T) <= MaxParams}}
CliClient ==
    {[client_id |-> "v", client_secret |-> "v"],
     [client_id |-> "", client_secret |-> "v"],
     [client_secret |-> "v"]}
\* f extended by the entries of g
Merge(f, g) ==
    [k \in DOMAIN f \cup DOMAIN g |-> IF k \in DOMAIN g THEN g[k] ELSE f[k]]
Argvs ==
    {Merge(o, c) : o \in CliOptional, c \in CliClient}
    \cup {Merge(Merge(o, c), [grant_type |-> g])
             : o \in CliOptional, c \in CliClient, g \in CliGrantTypes}

\* !!data.key
Present(data, key) == key \in DOMAIN data /\ data[key] # ""

\* the refinement of ArgsSchema
Refine(data) ==
    CASE data.grant_type = "exchange_code" -> Present(data, "exchange_code")
      [] data.grant_type = "password" ->
            Present(data, "username") /\ Present(data, "password")
      [] data.grant_type = "client_credentials" ->
            Present(data, "client_id") /\ Present(data, "client_secret")
      [] data.grant_type = "refresh_token" -> Present(data, "refresh_token")
      [] OTHER -> FALSE

\* ArgsSchema.parse(args): the record with grant_type defaulted, or nothing
\* when a ZodError is thrown
ParseArgs(argv) ==
    LET data == IF "grant_type" \in DOMAIN argv THEN argv
                ELSE Merge(argv, [grant_type |-> "exchange_code"])
    IN IF /\ data.grant_type \in GrantTypes
          /\ {"client_id", "client_secret"} \subseteq DOMAIN data
          /\ Refine(data)
       THEN <<data>>
       ELSE <<>>

\* the switch of main that fills authParams
AuthParams(args) ==
    CASE args.grant_type = "exchange_code" -> [exchange_code |-> args.exchange_code]
      [] args.grant_type = "password" ->
            [username |-> args.username, password |-> args.password]
      [] args.grant_type = "refresh_token" -> [refresh_token |-> args.refresh_token]
      [] OTHER -> [k \in {} |-> ""]

\* directory entries: a file, a directory with its entries, or something
\* else (a link, a socket); names are written character by character
File(name, module) == [name |-> name, kind |-> "file", entries |-> <<>>, module |-> module]
Dir(name, entries) == [name |-> name, kind |-> "dir", entries |-> entries, module |-> <<>>]
Other(name) == [name |-> name, kind |-> "other", entries |-> <<>>, module |-> <<>>]

\* what importing a test file does: the test calls its top level makes,
\* and the names it exports
Module(calls, exports) == <<[calls |-> calls, exports |-> exports]>>
SingleTs == File(<<"s", ".", "t", "s">>, Module(2, {"default", "missingAuthTest"}))
BulkTs == File(<<"b", ".", "t", "s">>, Module(1, {"bulkStatusTest"}))
TimelineTs == File(<<"t", ".", "t", "s">>, Module(2, {"default", "activeEventsTest"}))

\* what readdir may find under ./tests
FileSystems ==
    {[exists |-> FALSE, entries |-> <<>>],
     [exists |-> TRUE, entries |-> <<>>],
     [exists |-> TRUE, entries |-> <<Dir(<<"l">>, <<BulkTs, SingleTs>>), TimelineTs>>],
     [exists |-> TRUE,
      entries |-> <<File(<<"n", ".", "m", "d">>, <<>>),
                    Dir(<<"d">>, <<Dir(<<"e">>, <<BulkTs>>), Other(<<"x", ".", "t", "s">>)>>),
                    File(<<"t", "s">>, <<>>),
                    SingleTs>>]}

EndsWith(name, suffix) ==
    /\ Len(name) >= Len(suffix)
    /\ SubSeq(name, Len(name) - Len(suffix) + 1, Len(name)) = suffix

\* BackendTest.collectTestFiles(directory): the paths in the order found
RECURSIVE CollectTestFiles(_, _)
CollectTestFiles(directory, entries) ==
    IF entries = <<>> THEN <<>>
    ELSE LET entry == Head(entries)
             path == Append(directory, entry.name)
             found == CASE entry.kind = "dir" -> CollectTestFiles(path, entry.entries)
                        [] entry.kind = "file" /\ EndsWith(entry.name, <<".", "t", "s">>) ->
                              <<[path |-> path, module |-> entry.module[1]]>>
                        [] OTHER -> <<>>
         IN found \o CollectTestFiles(directory, Tail(entries))

TestsDirectory == <<".", "tests">>

RunnerLine(level, text, about) == [level |-> level, text |-> text, about |-> about]

\* mutant: the outer catch logging the error and going on to the tests
OuterCatch_GoesOn(r, error) ==
    [r EXCEPT !.phase = "collecting",
              !.log = Append(@, RunnerLine("fatal", "Error initializing backend client", error))]

\* catch (error) { logger.fatal(...); process.exit(1) }
OuterCatch(r, error) ==
    [r EXCEPT !.phase = "exited", !.exitCode = 1,
              !.log = Append(@, RunnerLine("fatal", "Error initializing backend client", error))]

\* main has returned and nothing is left to wait for
Returned(r) == [r EXCEPT !.phase = "exited", !.exitCode = 0]

\* the for-loop moves on to the next test file
NextFile(r) ==
    IF r.at = Len(r.files) THEN Returned(r)
    ELSE [r EXCEPT !.at = @ + 1, !.call = 0]

InitRunner ==
    /\ EngineIdle
    /\ req = ReqOff
    /\ pure = PureOff
    /\ auth = AuthOff
    /\ \E argv \in Argvs :
          runner = [phase |-> "start", argv |-> argv, backend |-> "unassigned",
                    tree |-> <<>>, files |-> <<>>, at |-> 0, call |-> 0, loaded |-> <<>>,
                    requests |-> <<>>, log |-> <<>>, exitCode |-> 0]

\* main up to `await auth.getAccessToken(...)`
Main ==
    /\ runner.phase = "start"
    /\ LET parsed == ParseArgs(runner.argv)
       IN IF parsed = <<>>
          THEN /\ runner' = OuterCatch(runner, [name |-> "ZodError", message |-> <<>>])
               /\ UNCHANGED auth
          ELSE /\ auth' = Requested(NewAuth(parsed[1].grant_type), TRUE,
                                    parsed[1].grant_type, Given(AuthParams(parsed[1])))
               /\ runner' = [runner EXCEPT !.phase = "token"]
    /\ UNCHANGED <<engineVars, req, pure>>

\* getAccessToken has settled: the backend is assigned and the test files
\* are asked for, or the rejection is caught
TokenAwaited ==
    /\ runner.phase = "token"
    /\ auth.phase \in {"resolved", "rejected"}
    /\ runner' = IF auth.phase = "rejected"
                 THEN OuterCatch(runner, auth.error)
                 ELSE [runner EXCEPT
                         !.phase = "collecting",
                         !.backend = "assigned",
                         !.log = Append(@, RunnerLine("info",
                                    "Backend client initialized successfully", NoError))]
    /\ UNCHANGED <<engineVars, req, pure, auth>>

\* collectTestFiles('./tests') has settled
TestsCollected ==
    /\ runner.phase = "collecting"
    /\ \E fs \in FileSystems :
          IF ~fs.exists
          THEN runner' = OuterCatch(runner, [name |-> "ENOENT", message |-> <<>>])
          ELSE LET testFiles == CollectTestFiles(TestsDirectory, fs.entries)
               IN runner' = IF testFiles = <<>> THEN Returned([runner EXCEPT !.tree = fs.entries])
                            ELSE [runner EXCEPT !.phase = "loading", !.tree = fs.entries,
                                                !.files = testFiles, !.at = 1, !.call = 0]
    /\ UNCHANGED <<engineVars, req, pure, auth>>

\* `await import(testPath)`: the module being evaluated makes its next test
\* call and awaits it.  A rejected call ends the evaluation, the import
\* rejects and the inner catch logs it; after the last call the import
\* resolves.  Either way the loop goes on; testModule is not used.
TestRequest(settled) ==
    /\ runner.phase = "loading"
    /\ LET file == runner.files[runner.at]
           sent == [runner EXCEPT !.requests = Append(@, [path |-> file.path,
                                                          call |-> runner.call + 1]),
                                  !.call = @ + 1]
       IN runner' =
            IF settled = "rejected"
            THEN NextFile([sent EXCEPT
                    !.loaded = Append(@, [path |-> file.path, status |-> "threw",
                                          iterated |-> {}]),
                    !.log = Append(@, RunnerLine("error", "Error running test",
                                                 Error(<<"fetch failed">>)))])
            ELSE IF sent.call = file.module.calls
            THEN NextFile([sent EXCEPT
                    !.loaded = Append(@, [path |-> file.path, status |-> "evaluated",
                                          iterated |-> {}])])
            ELSE sent
    /\ UNCHANGED <<engineVars, req, pure, auth>>

TestRequestSettles == \E settled \in {"result", "rejected"} : TestRequest(settled)

NextRunner ==
    \/ Main
    \/ TokenEndpointResponds
    \/ TokenFetchFails
    \/ TokenErrorRead
    \/ TokenBodyParsed
    \/ TokenAwaited
    \/ TestsCollected
    \/ TestRequestSettles

SpecRunner == InitRunner /\ [][NextRunner]_vars

----------------------------------------------------------------------------
(* C14 *)

Logged(level, error) ==
    \E i \in 1..Len(runner.log) : runner.log[i].level = level /\ runner.log[i].about = error

\* C14: when the runner has ended, every auth error and every transport
\* error of a test request has been logged by it and the exit status is
\* not zero.
C14_ErrorsExitNonZero ==
    runner.phase = "exited" =>
        /\ auth.phase = "rejected" => (Logged("fatal", auth.error) /\ runner.exitCode # 0)
        /\ \A i \in 1..Len(runner.loaded) :
              runner.loaded[i].status = "threw" =>
                  /\ \E l \in 1..Len(runner.log) : runner.log[l].level \in {"error", "fatal"}
                  /\ runner.exitCode # 0

----------------------------------------------------------------------------
(* C15 *)

\* the claim's notion of discovery: every regular file below the tests
\* directory, at any depth, whose name ends in .ts
RECURSIVE Discovered(_, _)
Discovered(directory, entries) ==
    UNION {IF entries[i].kind = "dir"
           THEN Discovered(Append(directory, entries[i].name), entries[i].entries)
           ELSE IF entries[i].kind = "file"
                   /\ Len(entries[i].name) >= 3
                   /\ \A k \in 1..3 :
                         entries[i].name[Len(entries[i].name) - 3 + k] = <<".", "t", "s">>[k]
           THEN {[path |-> Append(directory, entries[i].name),
                  exports |-> entries[i].module[1].exports]}
           ELSE {}
           : i \in 1..Len(entries)}

RunnerFinishedTests ==
    runner.phase = "exited" /\ runner.backend = "assigned" /\ runner.exitCode = 0

\* every discovered file was loaded, one failing or not
AllLoaded ==
    /\ {runner.loaded[i].path : i \in 1..Len(runner.loaded)}
          = {d.path : d \in Discovered(TestsDirectory, runner.tree)}
    /\ Len(runner.loaded) = Cardinality(Discovered(TestsDirectory, runner.tree))

\* C15: once the backend is initialised, every discovered file is loaded
\* and its exports are iterated; a file that fails to load does not keep a
\* later one from being loaded.
C15_EveryFileLoadedAndIterated ==
    RunnerFinishedTests =>
        /\ AllLoaded
        /\ \A i \in 1..Len(runner.loaded) :
              runner.loaded[i].status = "evaluated" =>
                  \E d \in Discovered(TestsDirectory, runner.tree) :
                      d.path = runner.loaded[i].path /\ runner.loaded[i].iterated = d.exports

----------------------------------------------------------------------------
(* C19 *)

\* C19: arguments the runner's schema accepts give a parameter record that
\* passes the Auth client's validation, so that the token request is sent.
C19_AcceptedArgsAreSent ==
    (runner.phase \notin {"off", "start"} /\ ParseArgs(runner.argv) # <<>>) =>
        /\ Len(auth.posts) = 1
        /\ auth.error.message \notin ValidationMessages

----------------------------------------------------------------------------
(* C20 *)

\* C20: a test module is loaded and a test request is sent only after the
\* token was acquired and the exported backend assigned; when the token is
\* not acquired no test request is ever sent.
C20_NoTestBeforeToken ==
    runner.phase # "off" =>
        /\ (runner.phase = "loading" \/ runner.loaded # <<>> \/ runner.requests # <<>>) =>
              /\ auth.phase = "resolved"
              /\ runner.backend = "assigned"
        /\ auth.phase \in {"off", "rejected"} =>
              /\ runner.requests = <<>>
              /\ runner.phase \in {"start", "token", "exited"}
        /\ (runner.phase = "exited" /\ auth.phase \in {"off", "rejected"}) =>
              runner.exitCode = 1

\* the token acquired, the backend assigned, requests of two test files sent
C20_Witness ==
    /\ runner.phase = "exited"
    /\ auth.phase = "resolved"
    /\ runner.backend = "assigned"
    /\ Len(runner.loaded) = 2
    /\ Len(runner.requests) = 3

----------------------------------------------------------------------------
(* C21 *)

\* both forms of one assertion have been called on one settled request
BothFormsCalled == pure.phase = "done" /\ pure.deferred # <<>>

\* C21: on a settled successful request the deferred form of an assertion
\* (on the handle) and its direct form (on the result), given the same
\* arguments, pass or fail alike, log the same lines and both yield the
\* result.
C21_DeferredEqualsDirect ==
    BothFormsCalled =>
        LET direct == pure.out
            deferred == pure.deferred[1]
        IN /\ deferred.lines = direct.lines
           /\ deferred.ret = direct.ret
           /\ (direct.lines # <<>>) =>
                 (deferred.lines[1].mark = "pass" <=> direct.lines[1].mark = "pass")

\* both forms of toHaveHeader called with the empty string as the value, on
\* a response that has the header
C21_Witness ==
    /\ BothFormsCalled
    /\ pure.a.kind = "toHaveHeader"
    /\ pure.a.a2 = Str(<<>>)
    /\ LowerCase(pure.a.a1) \in DOMAIN pure.result.headers
    /\ pure.deferred[1].ret = "result"

----------------------------------------------------------------------------
(* C22 *)

LinesOf(c, marks) ==
    {i \in 1..Len(log) : log[i].desc = c /\ log[i].mark \in marks}

\* C22: when the request of a call has failed, no assertion on its handle,
\* attached before the failure or after it, is fulfilled or logs a pass or
\* a fail line; each one that has continued is rejected with the request's
\* error; and the failure is in the log once, however many assertions
\* there are.
C22_FailedRequestRejectsAssertions ==
    \A c \in Calls :
        callState[c] = "rejected" =>
            /\ \A p \in PromisesOf(c) :
                  /\ promises[p].state \in {"pending", "rejected"}
                  /\ promises[p].state = "rejected" => promises[p].error = outcome[c].error
            /\ LinesOf(c, {"pass", "fail"}) = {}
            /\ Cardinality(LinesOf(c, {"error"})) = 1

\* a failed request with one assertion attached before the failure and one
\* after it, both rejected
C22_Witness ==
    \E c \in Calls :
        /\ callState[c] = "rejected"
        /\ \E p, q \in PromisesOf(c) :
              /\ promises[p].early /\ ~promises[q].early
              /\ promises[p].state = "rejected" /\ promises[q].state = "rejected"
              /\ promises[p].error = outcome[c].error

====
